---- MODULE Spec2Model ----
(***************************************************************************)
(* Payroll derivation and payment summaries of the delivery app            *)
(* (app/models.py, app/admin.py, app/views.py, app/forms.py).              *)
(*                                                                         *)
(* The state is the tables the payroll engine works on, Delivery,          *)
(* StaffAssignment and PayrollManager (the "Ledger"), and the two summary  *)
(* tables MonthlyPayment and PaymentPeriod.  Money is a whole number of    *)
(* cents: every money column is DecimalField(max_digits=10,                *)
(* decimal_places=2).  A Python Decimal that is not yet stored is an exact *)
(* fraction [num, den] of cents; writing it to a column rounds it to a     *)
(* whole cent (ToDb).  A date is a day number.                             *)
(***************************************************************************)
EXTENDS Integers, Sequences, FiniteSets, TLC

\* ------------------------------------------------------------------ bounds
MaxDeliveries == 2      \* Delivery primary keys ever handed out
MaxAssignments == 3     \* StaffAssignment rows kept per delivery
MaxHandEdits == 1       \* hand edits of PayrollManager rows in the admin
MaxOps == 4             \* operations performed in one behaviour
MaxOpsDeep == 5         \* the same, in the behaviours of SpecDeep
MaxOpsSummary == 4      \* the same, in the behaviours of SpecSummary
MaxPeriods == 2         \* PaymentPeriod primary keys ever handed out
MaxOpsConcurrent == 3   \* saves started in one behaviour of SpecConcurrent
MaxOpsStatus == 4       \* operations in one behaviour of SpecStatus
MaxOpsPeriod == 3       \* operations in one behaviour of SpecPeriod
MaxOpsFrame == 4        \* operations in one behaviour of SpecFrame
MaxOpsStaff == 5        \* operations in one behaviour of SpecStaff
DaysInMonth == 2        \* days of a calendar month

Staff == {"s1", "s2"}
DeliveryIds == 1..MaxDeliveries
\* amounts a dispatcher types into the Delivery form (cents); the column has
\* no validator, so a negative amount is accepted
LoadingAmounts == {100000, 100001, -100000}
TurnboyRates == {20000, 20001}
\* amounts typed into the PayrollManager change form (cents)
FormPays == {0, 12345}

ROLE_CHOICES == {"turnboy", "loader"}

\* the requests that can be in progress at once
Callers == {"c1", "c2"}

\* calendar: a date is a day number; month m is the days
\* (m-1)*DaysInMonth + 1 .. m*DaysInMonth (a (year, month) pair is one month
\* number); NoDate is the null of a DateField
Months == {1, 2}
Dates == {2, 3}
NoDate == 0
\* timezone.now().date() of the requests
Today == 5
\* payment_date values typed into PaymentPeriodForm
FormDates == {NoDate, 4}
\* Delivery.date when the date plays no part
DefaultDates == {2}
\* Delivery amounts used where the summaries are exercised
SummaryLoadingAmounts == {100001}
SummaryTurnboyRates == {20001}
\* Delivery amounts used where requests run at once
ConcurrentLoadingAmounts == {100000, 100001}

VARIABLES
    delivery,          \* Delivery table: pk -> [loading_amount, turnboy_payment_rate, date]
    nextId,            \* next Delivery primary key (keys are never reused)
    staffassignment,   \* StaffAssignment table: delivery pk -> rows in storage order
    payrollmanager,    \* PayrollManager table: set of rows (staff, delivery, pays)
    handEdits,         \* number of hand edits of PayrollManager rows so far
    budget,            \* number of operations the behaviour may still perform
    last,              \* the operation that produced this state
    monthlypayment,    \* MonthlyPayment table: set of rows, one per (staff, month)
    paymentperiod,     \* PaymentPeriod table: set of rows with primary key id
    nextPeriodId,      \* next PaymentPeriod primary key
    callers,           \* a request saving a StaffAssignment: caller -> [pc, d,
                       \* loading_count, todo], its place in the handler and
                       \* the handler's local variables
    staff              \* Staff table: name -> [role, is_loader] of the staff
                       \* members that exist

vars == <<delivery, nextId, staffassignment, payrollmanager, handEdits, budget,
          last, monthlypayment, paymentperiod, nextPeriodId, callers, staff>>

\* the summary tables
summaryVars == <<monthlypayment, paymentperiod, nextPeriodId>>

\* the tables of the payroll engine
engineVars == <<delivery, nextId, staffassignment, payrollmanager, handEdits>>

\* ----------------------------------------------------------------- decimals
\* Decimal(n) for a whole number of cents
Dec(n) == [num |-> n, den |-> 1]

\* a / Decimal(k)
DecDiv(a, k) == [num |-> a.num, den |-> a.den * k]

\* a + b
DecAdd(a, b) == [num |-> a.num * b.den + b.num * a.den, den |-> a.den * b.den]

\* num/den cents rounded to a whole cent, ties to the even cent: a value
\* saved to a DecimalField is quantized to decimal_places in the decimal
\* context, whose rounding is ROUND_HALF_EVEN
Quantize(num, den) ==
    LET f == num \div den
        r == num % den
    IN  IF 2 * r < den THEN f
        ELSE IF 2 * r > den THEN f + 1
        ELSE IF f % 2 = 0 THEN f ELSE f + 1

\* the value a DecimalField(decimal_places=2) column holds after a save
ToDb(a) == Quantize(a.num, a.den)

\* ------------------------------------------------------------------ Delivery
\* Delivery.get_loaders(): the distinct staff with a helped_loading assignment
get_loaders(asg) ==
    {asg[i].staff : i \in {j \in DOMAIN asg : asg[j].helped_loading}}

\* Delivery.total_loader_count(): the helped_loading assignment rows
total_loader_count(asg) ==
    Cardinality({j \in DOMAIN asg : asg[j].helped_loading})

\* Delivery.per_loader_amount(), the same division as the "Per-loader
\* payment" of DeliveryAdmin.display_payment_details
per_loader_amount(instance, asg) ==
    LET num_loaders == total_loader_count(asg)
    IN  IF num_loaders = 0 THEN Dec(0)
        ELSE DecDiv(Dec(instance.loading_amount), num_loaders)
\* ----------------------------------------------------------- StaffAssignment
\* StaffAssignment.clean(), run by StaffAssignment.save()
cleanMutIdentity(a) == a

clean(a) ==
    IF a.role = "loader" THEN [a EXCEPT !.helped_loading = TRUE] ELSE a

\* the staff of the rows of one delivery's assignments
AssignedTo(asg) == {asg[i].staff : i \in DOMAIN asg}
\* unique_together = ('delivery', 'staff', 'role') within one delivery's rows
UniqueTogether(asg) ==
    \A i, j \in DOMAIN asg :
        (asg[i].staff = asg[j].staff /\ asg[i].role = asg[j].role) => i = j

RemoveAt(s, i) == SubSeq(s, 1, i - 1) \o SubSeq(s, i + 1, Len(s))

\* ------------------------------------------------------------ PayrollManager
\* PayrollManager.save(): total_pay is overwritten by the sum, then the three
\* Decimals are written to their columns
PayrollManagerSave(obj) ==
    [staff |-> obj.staff, delivery |-> obj.delivery,
     role_pay |-> ToDb(obj.role_pay), loader_pay |-> ToDb(obj.loader_pay),
     total_pay |-> ToDb(DecAdd(obj.role_pay, obj.loader_pay))]

\* PayrollManager.objects.update_or_create(staff=, delivery=, defaults=)
update_or_createMutAccumulate(rows, s, d, defaults) ==
    LET old == {r \in rows : r.staff = s /\ r.delivery = d}
        new == PayrollManagerSave([staff |-> s, delivery |-> d,
                   role_pay |-> defaults.role_pay,
                   loader_pay |-> defaults.loader_pay,
                   total_pay |-> defaults.total_pay])
    IN  (rows \ old) \cup
        {[new EXCEPT !.loader_pay = @ + o.loader_pay] : o \in old} \cup
        (IF old = {} THEN {new} ELSE {})

update_or_createMutInsert(rows, s, d, defaults) ==
    rows \cup
        {PayrollManagerSave([staff |-> s, delivery |-> d,
             role_pay |-> defaults.role_pay,
             loader_pay |-> defaults.loader_pay,
             total_pay |-> defaults.total_pay])}

update_or_createMutAllDeliveries(rows, s, d, defaults) ==
    LET old == {r \in rows : r.staff = s}
    IN  (rows \ old) \cup
        {PayrollManagerSave([staff |-> s, delivery |-> d,
             role_pay |-> defaults.role_pay,
             loader_pay |-> defaults.loader_pay,
             total_pay |-> defaults.total_pay])}
update_or_create(rows, s, d, defaults) ==
    LET old == {r \in rows : r.staff = s /\ r.delivery = d}
    IN  (rows \ old) \cup
        {PayrollManagerSave([staff |-> s, delivery |-> d,
             role_pay |-> defaults.role_pay,
             loader_pay |-> defaults.loader_pay,
             total_pay |-> defaults.total_pay])}

\* the body of the loop of update_payroll_manager for one assignment: the
\* defaults handed to update_or_create
LineDefaults(instance, assignment, loading_count) ==
    LET role_pay == IF assignment.role = "turnboy"
                    THEN Dec(instance.turnboy_payment_rate) ELSE Dec(0)
        loader_pay == IF assignment.helped_loading /\ loading_count > 0
                      THEN DecDiv(Dec(instance.loading_amount), loading_count)
                      ELSE Dec(0)
    IN  [role_pay |-> role_pay, loader_pay |-> loader_pay,
         total_pay |-> DecAdd(role_pay, loader_pay)]

\* the loop of update_payroll_manager over instance.staffassignment_set.all().
\* The queryset has no ordering: the rows come back in the order the table
\* keeps them, which no recompute changes (it writes PayrollManager only)
RECURSIVE ProcessAssignments(_, _, _, _, _)
ProcessAssignments(rows, instance, d, asg, loading_count) ==
    IF asg = <<>> THEN rows
    ELSE ProcessAssignments(
             update_or_create(rows, Head(asg).staff, d,
                              LineDefaults(instance, Head(asg), loading_count)),
             instance, d, Tail(asg), loading_count)

\* update_payroll_manager on post_delete of a Delivery
PostDeleteDeliveryMutKeep(rows, d) == rows

PostDeleteDelivery(rows, d) == {r \in rows : r.delivery # d}

\* PayrollManager.delivery is on_delete=CASCADE: the rows of a deleted
\* delivery go with it, before any StaffAssignment signal is sent
CascadePayrollManager(rows, d) == {r \in rows : r.delivery # d}

\* update_payroll_manager on post_save of a Delivery, and as called by
\* update_payroll_on_staff_assignment_change and by calculate_payments
update_payroll_managerMutIncremental(rows, instance, d, asg) ==
    ProcessAssignments(rows, instance, d,
                       IF asg = <<>> THEN asg ELSE <<asg[Len(asg)]>>,
                       Cardinality(get_loaders(asg)))

update_payroll_manager(rows, instance, d, asg) ==
    ProcessAssignments(rows, instance, d, asg, Cardinality(get_loaders(asg)))

\* update_payroll_manager stopped by an error raised by the k+1-th upsert:
\* the first k upserts are already written (no transaction spans the loop)
update_payroll_manager_interrupted(rows, instance, d, asg, k) ==
    ProcessAssignments(rows, instance, d, SubSeq(asg, 1, k),
                       Cardinality(get_loaders(asg)))

\* --------------------------------------------------------------- aggregation
\* calendar.monthrange: the first and the last day of a month
FirstDay(m) == (m - 1) * DaysInMonth + 1

LastDay(m) == m * DaysInMonth

\* PayrollManager.objects.filter(staff=, delivery__date__range=(start, end)):
\* the join with Delivery, BETWEEN start AND end
PayrollFilter(rows, dl, s, start, end) ==
    {r \in rows : /\ r.staff = s
                  /\ r.delivery \in DOMAIN dl
                  /\ dl[r.delivery].date >= start
                  /\ dl[r.delivery].date <= end}

RECURSIVE SumField(_, _)
SumField(rows, f) ==
    IF rows = {} THEN 0
    ELSE LET r == CHOOSE x \in rows : TRUE
         IN  r[f] + SumField(rows \ {r}, f)

\* aggregate(Sum(f)): SQL SUM is NULL (None) over no rows
Sum(rows, f) == [isnull |-> rows = {}, val |-> SumField(rows, f)]

\* x or Decimal('0.00'), x or 0
OrZero(x) == IF x.isnull \/ x.val = 0 THEN 0 ELSE x.val

\* Coalesce(x, Value(0))
Coalesce(x) == IF x.isnull THEN 0 ELSE x.val

\* Staff.get_monthly_payment(year, month)
get_monthly_payment(rows, dl, s, m) ==
    LET payments == PayrollFilter(rows, dl, s, FirstDay(m), LastDay(m))
    IN  [role_payment |-> OrZero(Sum(payments, "role_pay")),
         loader_payment |-> OrZero(Sum(payments, "loader_pay")),
         total_payment |-> OrZero(Sum(payments, "total_pay"))]

\* the sums of StaffAdmin.calculate_custom_period_payment
custom_period_sums(rows, dl, s, start, end) ==
    LET payroll_entries == PayrollFilter(rows, dl, s, start, end)
        role_payment == Coalesce(Sum(payroll_entries, "role_pay"))
        loader_payment == Coalesce(Sum(payroll_entries, "loader_pay"))
    IN  [role_payment |-> role_payment,
         loader_payment |-> loader_payment,
         total_payment |-> role_payment + loader_payment]

\* the sums of period_payroll, individual_payroll, create_payment_period_form
period_sums(rows, dl, s, start, end) ==
    LET payments == PayrollFilter(rows, dl, s, start, end)
    IN  [role_payment |-> OrZero(Sum(payments, "role_pay")),
         loader_payment |-> OrZero(Sum(payments, "loader_pay")),
         total_payment |-> OrZero(Sum(payments, "total_pay"))]

\* MonthlyPayment.save() and PaymentPeriod.save(): total_payment is
\* overwritten by the sum (the amounts are whole cents: sums of stored columns)
SummarySave(obj) ==
    [obj EXCEPT !.total_payment = obj.role_payment + obj.loader_payment]

\* setattr of the defaults of update_or_create on a row
SetAmounts(row, amounts) ==
    [row EXCEPT !.role_payment = amounts.role_payment,
                !.loader_payment = amounts.loader_payment,
                !.total_payment = amounts.total_payment]

\* MonthlyPayment.objects.update_or_create(staff=, year=, month=, defaults=):
\* a new row has the defaults of is_paid and payment_date
MonthlyUpdateOrCreate(rows, s, m, amounts) ==
    LET old == {r \in rows : r.staff = s /\ r.month = m}
    IN  IF old = {}
        THEN rows \cup {SummarySave(SetAmounts(
                 [staff |-> s, month |-> m, role_payment |-> 0,
                  loader_payment |-> 0, total_payment |-> 0,
                  is_paid |-> FALSE, payment_date |-> NoDate], amounts))}
        ELSE (rows \ old) \cup {SummarySave(SetAmounts(r, amounts)) : r \in old}

\* the check constraint of PaymentPeriod
period_end_gte_period_start(period_start, period_end) == period_end >= period_start

\* period_payroll and individual_payroll: the two dates of the query string
\* are swapped when start_date > end_date, before the POST is handled
OrderDatesMutKeep(start_date, end_date) == [start |-> start_date, end |-> end_date]

OrderDates(start_date, end_date) ==
    IF start_date > end_date
    THEN [start |-> end_date, end |-> start_date]
    ELSE [start |-> start_date, end |-> end_date]

\* 1 when the view swaps the dates
Swapped(start_date, end_date) == IF start_date > end_date THEN 1 ELSE 0

\* the PaymentPeriod rows of a (staff, period_start, period_end)
PeriodRows(rows, s, start, end) ==
    {r \in rows : r.staff = s /\ r.period_start = start /\ r.period_end = end}

\* PaymentPeriod.objects.create(...): INSERT with the next primary key
PeriodCreate(rows, id, s, start, end, amounts, is_paid, payment_date) ==
    rows \cup {SummarySave(SetAmounts(
        [id |-> id, staff |-> s, period_start |-> start, period_end |-> end,
         role_payment |-> 0, loader_payment |-> 0, total_payment |-> 0,
         is_paid |-> is_paid, payment_date |-> payment_date], amounts))}

\* queryset.update(is_paid=True, payment_date=today) on the selected rows
MarkAsPaidMutResetAmounts(rows, S, today) ==
    (rows \ S) \cup {[r EXCEPT !.is_paid = TRUE, !.payment_date = today,
                               !.total_payment = 0] : r \in S}

MarkAsPaid(rows, S, today) ==
    (rows \ S) \cup {[r EXCEPT !.is_paid = TRUE, !.payment_date = today] : r \in S}

\* queryset.update(is_paid=False, payment_date=None) on the selected rows
MarkAsUnpaid(rows, S) ==
    (rows \ S) \cup {[r EXCEPT !.is_paid = FALSE, !.payment_date = NoDate] : r \in S}

\* obj.is_paid = True; obj.payment_date = today; obj.save()
SetPaidAndSave(rows, r, today) ==
    (rows \ {r}) \cup {SummarySave([r EXCEPT !.is_paid = TRUE, !.payment_date = today])}

\* ---------------------------------------------------------------------- Init
\* a caller that is in no handler
Idle == [pc |-> "idle", d |-> 0, loading_count |-> 0, todo |-> <<>>]

\* a Staff row as the add form offers it: role and is_loader at their defaults
StaffDefaults == [role |-> "turnboy", is_loader |-> TRUE]

\* the database with the staff members registered and every other table
\* empty, and a budget of operations
Empty(b) ==
    /\ delivery = <<>>
    /\ nextId = 1
    /\ staffassignment = [d \in DeliveryIds |-> <<>>]
    /\ payrollmanager = {}
    /\ handEdits = 0
    /\ budget = b
    /\ last = [op |-> "init", d |-> 0, n |-> 0, raised |-> FALSE,
               staff |-> "", start |-> 0, end |-> 0]
    /\ monthlypayment = {}
    /\ paymentperiod = {}
    /\ nextPeriodId = 1
    /\ callers = [c \in Callers |-> Idle]
    /\ staff = [s \in Staff |-> StaffDefaults]

Init == Empty(MaxOps)

InitDeep == Empty(MaxOpsDeep)

InitSummary == Empty(MaxOpsSummary)

InitConcurrent == Empty(MaxOpsConcurrent)

InitStatus == Empty(MaxOpsStatus)

InitStaff == Empty(MaxOpsStaff)

InitFrame == Empty(MaxOpsFrame)

InitPeriod == Empty(MaxOpsPeriod)

\* one more operation of the behaviour.  last records it: op, the delivery d
\* it was about, whether it ended with an uncaught exception (raised), and
\*   n: the number of PayrollManager rows a DeliveryDelete found for the
\*      delivery; for the save of a StaffAssignment 1 when helped_loading was
\*      ticked in the form; for mark_period_paid the period_id; for a POST
\*      of period_payroll 1 when the view swapped the dates (0 otherwise)
\*   staff, start, end: the staff member and the date range of an operation
\*      on a summary row (a month is the range of its days)
StepLast(l) ==
    /\ budget > 0
    /\ budget' = budget - 1
    /\ last' = l

\* an operation of the payroll engine
StepN(op, d, n) ==
    /\ StepLast([op |-> op, d |-> d, n |-> n, raised |-> FALSE,
                 staff |-> "", start |-> 0, end |-> 0])
    /\ UNCHANGED <<summaryVars, callers, staff>>

Step(op, d) == StepN(op, d, 0)

\* ------------------------------------------------------------------- actions
\* a Delivery is created: save(), then post_save -> update_payroll_manager
DeliveryCreate(la, rate, date) ==
    /\ nextId <= MaxDeliveries
    /\ Step("DeliveryCreate", nextId)
    /\ LET inst == [loading_amount |-> la, turnboy_payment_rate |-> rate,
                    date |-> date]
       IN  /\ delivery' = delivery @@ (nextId :> inst)
           /\ payrollmanager' =
                  update_payroll_manager(payrollmanager, inst, nextId,
                                         staffassignment[nextId])
    /\ nextId' = nextId + 1
    /\ UNCHANGED <<staffassignment, handEdits>>

\* a Delivery is edited: save(), then post_save -> update_payroll_manager
DeliveryEdit(d, la, rate, date) ==
    /\ d \in DOMAIN delivery
    /\ Step("DeliveryEdit", d)
    /\ LET inst == [loading_amount |-> la, turnboy_payment_rate |-> rate,
                    date |-> date]
       IN  /\ delivery' = [delivery EXCEPT ![d] = inst]
           /\ payrollmanager' =
                  update_payroll_manager(payrollmanager, inst, d, staffassignment[d])
    /\ UNCHANGED <<nextId, staffassignment, handEdits>>

\* a StaffAssignment is created: clean(), save(), then post_save ->
\* update_payroll_on_staff_assignment_change -> update_payroll_manager
AssignmentCreate(d, s, role, helped) ==
    /\ d \in DOMAIN delivery
    /\ s \in DOMAIN staff
    /\ Len(staffassignment[d]) < MaxAssignments
    /\ StepN("AssignmentCreate", d, IF helped THEN 1 ELSE 0)
    /\ LET a == clean([staff |-> s, role |-> role, helped_loading |-> helped])
           asg == Append(staffassignment[d], a)
       IN  /\ UniqueTogether(asg)
           /\ staffassignment' = [staffassignment EXCEPT ![d] = asg]
           /\ payrollmanager' =
                  update_payroll_manager(payrollmanager, delivery[d], d, asg)
    /\ UNCHANGED <<delivery, nextId, handEdits>>

\* a StaffAssignment row is edited (staff, role, helped_loading are the
\* inline's fields): clean(), save(), then the post_save recompute
AssignmentEdit(d, i, s, role, helped) ==
    /\ d \in DOMAIN delivery
    /\ i \in DOMAIN staffassignment[d]
    /\ s \in DOMAIN staff
    /\ StepN("AssignmentEdit", d, IF helped THEN 1 ELSE 0)
    /\ LET a == clean([staff |-> s, role |-> role, helped_loading |-> helped])
           asg == [staffassignment[d] EXCEPT ![i] = a]
       IN  /\ UniqueTogether(asg)
           /\ staffassignment' = [staffassignment EXCEPT ![d] = asg]
           /\ payrollmanager' =
                  update_payroll_manager(payrollmanager, delivery[d], d, asg)
    /\ UNCHANGED <<delivery, nextId, handEdits>>

\* a StaffAssignment row is deleted: post_delete ->
\* update_payroll_on_staff_assignment_change -> update_payroll_manager
AssignmentDelete(d, i) ==
    /\ d \in DOMAIN delivery
    /\ i \in DOMAIN staffassignment[d]
    /\ Step("AssignmentDelete", d)
    /\ LET asg == RemoveAt(staffassignment[d], i)
       IN  /\ staffassignment' = [staffassignment EXCEPT ![d] = asg]
           /\ payrollmanager' =
                  update_payroll_manager(payrollmanager, delivery[d], d, asg)
    /\ UNCHANGED <<delivery, nextId, handEdits>>

\* the post_delete signals of the assignments of a deleted delivery, sent one
\* row at a time while the rows after it are still stored: each runs
\* update_payroll_on_staff_assignment_change on what is left
RECURSIVE CascadeAssignments(_, _, _, _, _)
CascadeAssignments(rows, instance, d, asg, fromEnd) ==
    IF asg = <<>> THEN rows
    ELSE LET left == IF fromEnd THEN SubSeq(asg, 1, Len(asg) - 1) ELSE Tail(asg)
         IN  CascadeAssignments(update_payroll_manager(rows, instance, d, left),
                                instance, d, left, fromEnd)

\* a Delivery is deleted.  Its PayrollManager rows and its StaffAssignment
\* rows go with it (both foreign keys are on_delete=CASCADE); every deleted
\* assignment sends post_delete, which recomputes the delivery from the
\* assignments still stored (none when the rows were removed in one batch);
\* last, post_delete of the Delivery runs update_payroll_manager
DeliveryDelete(d, order) ==
    /\ d \in DOMAIN delivery
    /\ StepN("DeliveryDelete", d,
             Cardinality({r \in payrollmanager : r.delivery = d}))
    /\ LET rows0 == CascadePayrollManager(payrollmanager, d)
           rows1 == IF order = "batch"
                    THEN update_payroll_manager(rows0, delivery[d], d, <<>>)
                    ELSE CascadeAssignments(rows0, delivery[d], d,
                                            staffassignment[d], order = "last_first")
       IN  payrollmanager' = PostDeleteDelivery(rows1, d)
    /\ staffassignment' = [staffassignment EXCEPT ![d] = <<>>]
    /\ delivery' = [e \in DOMAIN delivery \ {d} |-> delivery[e]]
    /\ UNCHANGED <<nextId, handEdits>>

\* DeliveryAdmin.calculate_payments for one selected delivery
CalculatePaymentsMutFallbackLoader(d) ==
    /\ d \in DOMAIN delivery
    /\ Step("CalculatePayments", d)
    /\ LET asg == [i \in DOMAIN staffassignment[d] |->
                      [staffassignment[d][i] EXCEPT !.helped_loading = TRUE]]
       IN  /\ staffassignment' = [staffassignment EXCEPT ![d] = asg]
           /\ payrollmanager' =
                  update_payroll_manager(payrollmanager, delivery[d], d, asg)
    /\ UNCHANGED <<delivery, nextId, handEdits>>

CalculatePayments(d) ==
    /\ d \in DOMAIN delivery
    /\ Step("CalculatePayments", d)
    /\ payrollmanager' =
           update_payroll_manager(payrollmanager, delivery[d], d, staffassignment[d])
    /\ UNCHANGED <<delivery, nextId, staffassignment, handEdits>>

\* DeliveryAdmin.calculate_payments stopped by a database error raised by its
\* k+1-th upsert; an admin action runs in no transaction
CalculatePaymentsInterrupted(d, k) ==
    /\ d \in DOMAIN delivery
    /\ k < Len(staffassignment[d])
    /\ StepLast([op |-> "CalculatePaymentsInterrupted", d |-> d, n |-> 0,
                 raised |-> TRUE, staff |-> "", start |-> 0, end |-> 0])
    /\ UNCHANGED <<summaryVars, callers, staff>>
    /\ payrollmanager' =
           update_payroll_manager_interrupted(payrollmanager, delivery[d], d,
                                              staffassignment[d], k)
    /\ UNCHANGED <<delivery, nextId, staffassignment, handEdits>>

\* PayrollManagerAdmin change form: role_pay and loader_pay are editable
\* (total_pay, staff and delivery are read-only); save_model sets total_pay
\* and PayrollManager.save() sets it again
AdminEditLine(r, role_pay, loader_pay) ==
    /\ r \in payrollmanager
    /\ handEdits < MaxHandEdits
    /\ Step("AdminEditLine", r.delivery)
    /\ handEdits' = handEdits + 1
    /\ payrollmanager' =
           (payrollmanager \ {r}) \cup
           {PayrollManagerSave([staff |-> r.staff, delivery |-> r.delivery,
                role_pay |-> Dec(role_pay), loader_pay |-> Dec(loader_pay),
                total_pay |-> DecAdd(Dec(role_pay), Dec(loader_pay))])}
    /\ UNCHANGED <<delivery, nextId, staffassignment>>

\* PayrollManagerAdmin allows deletion (has_delete_permission): the selected
\* rows are deleted
AdminDeleteLines(S) ==
    /\ S # {}
    /\ handEdits < MaxHandEdits
    /\ Step("AdminDeleteLines", 0)
    /\ handEdits' = handEdits + 1
    /\ payrollmanager' = payrollmanager \ S
    /\ UNCHANGED <<delivery, nextId, staffassignment>>

\* -------------------------------------------------------- concurrent saves
\* Two requests each save a StaffAssignment and run the post_save handler,
\* one statement at a time.  update_payroll_manager takes no lock and opens
\* no transaction: the statements of the two requests interleave, and each
\* statement sees what the other request has written so far.

\* the StaffAssignment row is written: clean(), save()
CallerSave(c, d, s, role, helped) ==
    /\ callers[c].pc = "idle"
    /\ d \in DOMAIN delivery
    /\ s \in DOMAIN staff
    /\ Len(staffassignment[d]) < MaxAssignments
    /\ StepLast([op |-> "CallerSave", d |-> d, n |-> IF helped THEN 1 ELSE 0,
                 raised |-> FALSE, staff |-> "", start |-> 0, end |-> 0])
    /\ LET a == clean([staff |-> s, role |-> role, helped_loading |-> helped])
           asg == Append(staffassignment[d], a)
       IN  /\ UniqueTogether(asg)
           /\ staffassignment' = [staffassignment EXCEPT ![d] = asg]
    /\ callers' = [callers EXCEPT ![c] = [Idle EXCEPT !.pc = "count", !.d = d]]
    /\ UNCHANGED <<delivery, nextId, payrollmanager, handEdits, summaryVars, staff>>

\* loading_count = len(instance.get_loaders())
CallerCountLoaders(c) ==
    /\ callers[c].pc = "count"
    /\ callers' = [callers EXCEPT
           ![c].loading_count =
               Cardinality(get_loaders(staffassignment[callers[c].d])),
           ![c].pc = "list"]
    /\ UNCHANGED <<engineVars, summaryVars, budget, last, staff>>

\* the query of: for assignment in instance.staffassignment_set.all()
CallerReadAssignments(c) ==
    /\ callers[c].pc = "list"
    /\ callers' = [callers EXCEPT ![c].todo = staffassignment[callers[c].d],
                                  ![c].pc = "upsert"]
    /\ UNCHANGED <<engineVars, summaryVars, budget, last, staff>>

\* one turn of the loop: update_or_create for the next assignment read; the
\* handler returns when none is left
CallerUpsert(c) ==
    /\ callers[c].pc = "upsert"
    /\ LET cl == callers[c]
       IN  IF cl.todo = <<>>
           THEN /\ callers' = [callers EXCEPT ![c] = Idle]
                /\ UNCHANGED payrollmanager
           ELSE /\ payrollmanager' =
                       update_or_create(payrollmanager, Head(cl.todo).staff, cl.d,
                           LineDefaults(delivery[cl.d], Head(cl.todo),
                                        cl.loading_count))
                /\ callers' = [callers EXCEPT ![c].todo = Tail(cl.todo)]
    /\ UNCHANGED <<delivery, nextId, staffassignment, handEdits, summaryVars,
                   budget, last, staff>>

\* ------------------------------------------------------------- Staff actions
\* Staff.clean(): run by the validation of a ModelForm (full_clean), not by
\* Staff.save(), which the model does not override
Staff_clean(obj) ==
    IF obj.role = "loader" /\ ~obj.is_loader
    THEN [obj EXCEPT !.is_loader = TRUE] ELSE obj

\* an operation on the Staff table
StepStaff(op, s) ==
    /\ StepLast([op |-> op, d |-> 0, n |-> 0, raised |-> FALSE,
                 staff |-> s, start |-> 0, end |-> 0])
    /\ UNCHANGED callers

\* StaffAdmin add form (name is unique): full_clean() runs clean(), then save()
StaffAdd(s, role, is_loader) ==
    /\ s \notin DOMAIN staff
    /\ StepStaff("StaffAdd", s)
    /\ staff' = staff @@ (s :> Staff_clean([role |-> role, is_loader |-> is_loader]))
    /\ UNCHANGED <<engineVars, summaryVars>>

\* StaffAdmin change form: full_clean() runs clean(), then save()
StaffChange(s, role, is_loader) ==
    /\ s \in DOMAIN staff
    /\ StepStaff("StaffChange", s)
    /\ staff' = [staff EXCEPT
                    ![s] = Staff_clean([role |-> role, is_loader |-> is_loader])]
    /\ UNCHANGED <<engineVars, summaryVars>>

\* Staff(...).save(), Staff.objects.create(...): Model.save() validates
\* nothing and calls no clean(); the row is stored as given
StaffSave(s, role, is_loader) ==
    /\ StepStaff("StaffSave", s)
    /\ staff' = IF s \in DOMAIN staff
                THEN [staff EXCEPT ![s] = [role |-> role, is_loader |-> is_loader]]
                ELSE staff @@ (s :> [role |-> role, is_loader |-> is_loader])
    /\ UNCHANGED <<engineVars, summaryVars>>

\* update_payroll_on_staff_assignment_change for the deleted assignments of
\* the deliveries D, each over the assignments its delivery still has
RECURSIVE RecomputeEach(_, _, _, _)
RecomputeEach(rows, D, dl, asg) ==
    IF D = {} THEN rows
    ELSE LET d == CHOOSE x \in D : TRUE
         IN  RecomputeEach(update_payroll_manager(rows, dl[d], d, asg[d]),
                           D \ {d}, dl, asg)

\* a Staff row is deleted (StaffAdmin).  Every foreign key to Staff is
\* on_delete=CASCADE: the PayrollManager, MonthlyPayment and PaymentPeriod rows
\* of the staff member and all of their StaffAssignment rows are deleted, the
\* rows of one table in one statement; then post_delete is sent for each
\* deleted assignment, and the handler recomputes its delivery from the
\* assignments that are left
StaffDelete(s) ==
    /\ s \in DOMAIN staff
    /\ StepStaff("StaffDelete", s)
    /\ LET left == [d \in DeliveryIds |->
                       SelectSeq(staffassignment[d], LAMBDA a : a.staff # s)]
           touched == {d \in DOMAIN delivery : s \in AssignedTo(staffassignment[d])}
       IN  /\ staffassignment' = left
           /\ payrollmanager' =
                  RecomputeEach({r \in payrollmanager : r.staff # s},
                                touched, delivery, left)
    /\ monthlypayment' = {r \in monthlypayment : r.staff # s}
    /\ paymentperiod' = {r \in paymentperiod : r.staff # s}
    /\ staff' = [x \in DOMAIN staff \ {s} |-> staff[x]]
    /\ UNCHANGED <<delivery, nextId, handEdits, nextPeriodId>>
\* ----------------------------------------------------------- summary actions
\* an operation on the summary tables
StepS(op, n, raised, s, start, end) ==
    /\ StepLast([op |-> op, d |-> 0, n |-> n, raised |-> raised,
                 staff |-> s, start |-> start, end |-> end])
    /\ UNCHANGED <<engineVars, callers, staff>>

\* StaffAdmin.calculate_monthly_payment for one selected staff member
CalculateMonthlyPayment(s, m) ==
    /\ StepS("CalculateMonthlyPayment", 0, FALSE, s, FirstDay(m), LastDay(m))
    /\ monthlypayment' =
           MonthlyUpdateOrCreate(monthlypayment, s, m,
               get_monthly_payment(payrollmanager, delivery, s, m))
    /\ UNCHANGED <<paymentperiod, nextPeriodId>>

\* PaymentPeriod.objects.update_or_create(staff=, period_start=, period_end=,
\* defaults=amounts): its get() raises MultipleObjectsReturned when several
\* rows have the key; a new row has the defaults of is_paid and payment_date
PeriodUpdateOrCreate(op, n, s, start, end, amounts) ==
    LET old == PeriodRows(paymentperiod, s, start, end)
    IN  IF Cardinality(old) >= 2
        THEN /\ StepS(op, n, TRUE, s, start, end)
             /\ UNCHANGED <<monthlypayment, paymentperiod, nextPeriodId>>
        ELSE IF old = {}
        THEN /\ nextPeriodId <= MaxPeriods
             /\ StepS(op, n, FALSE, s, start, end)
             /\ paymentperiod' =
                    PeriodCreate(paymentperiod, nextPeriodId, s, start, end,
                                 amounts, FALSE, NoDate)
             /\ nextPeriodId' = nextPeriodId + 1
             /\ UNCHANGED monthlypayment
        ELSE /\ StepS(op, n, FALSE, s, start, end)
             /\ paymentperiod' =
                    (paymentperiod \ old) \cup
                    {SummarySave(SetAmounts(r, amounts)) : r \in old}
             /\ UNCHANGED <<monthlypayment, nextPeriodId>>

\* StaffAdmin.calculate_custom_period_payment for one selected staff member:
\* start_date > end_date is answered with an error message before any row is
\* read
CalculateCustomPeriodPayment(s, start, end) ==
    IF start > end
    THEN /\ StepS("CalculateCustomPeriodPayment", 0, FALSE, s, start, end)
         /\ UNCHANGED <<monthlypayment, paymentperiod, nextPeriodId>>
    ELSE PeriodUpdateOrCreate("CalculateCustomPeriodPayment", 0, s, start, end,
             custom_period_sums(payrollmanager, delivery, s, start, end))

\* POST create_payment_period of period_payroll for one selected staff member,
\* and of individual_payroll (the same statements), with the dates of the
\* query string as the view has ordered them
PeriodPayrollCreate(s, start_date, end_date) ==
    LET start == OrderDates(start_date, end_date).start
        end == OrderDates(start_date, end_date).end
    IN  PeriodUpdateOrCreate("PeriodPayrollCreate", Swapped(start_date, end_date),
            s, start, end,
            period_sums(payrollmanager, delivery, s, start, end))

\* POST mark_paid of period_payroll for one selected staff member, and of
\* individual_payroll (the same statements): get() the row and mark it, or
\* create it paid on DoesNotExist; MultipleObjectsReturned is not caught
PeriodPayrollMarkPaid(s, start_date, end_date) ==
    LET start == OrderDates(start_date, end_date).start
        end == OrderDates(start_date, end_date).end
        n == Swapped(start_date, end_date)
        old == PeriodRows(paymentperiod, s, start, end)
    IN     IF Cardinality(old) >= 2
           THEN /\ StepS("PeriodPayrollMarkPaid", n, TRUE, s, start, end)
                /\ UNCHANGED <<monthlypayment, paymentperiod, nextPeriodId>>
           ELSE IF old = {}
           THEN /\ nextPeriodId <= MaxPeriods
                /\ StepS("PeriodPayrollMarkPaid", n, FALSE, s, start, end)
                /\ paymentperiod' =
                       PeriodCreate(paymentperiod, nextPeriodId, s, start, end,
                           period_sums(payrollmanager, delivery, s, start, end),
                           TRUE, Today)
                /\ nextPeriodId' = nextPeriodId + 1
                /\ UNCHANGED monthlypayment
           ELSE /\ StepS("PeriodPayrollMarkPaid", n, FALSE, s, start, end)
                /\ paymentperiod' =
                       SetPaidAndSave(paymentperiod, CHOOSE r \in old : TRUE, Today)
                /\ UNCHANGED <<monthlypayment, nextPeriodId>>

\* mark_period_paid(period_id): a missing row is reported by a message
MarkPeriodPaid(period_id) ==
    /\ StepS("MarkPeriodPaid", period_id, FALSE, "", 0, 0)
    /\ LET found == {r \in paymentperiod : r.id = period_id}
       IN  paymentperiod' =
               IF found = {} THEN paymentperiod
               ELSE SetPaidAndSave(paymentperiod, CHOOSE r \in found : TRUE, Today)
    /\ UNCHANGED <<monthlypayment, nextPeriodId>>

\* create_payment_period_form: PaymentPeriodForm (staff, period_start,
\* period_end, is_paid, payment_date) makes a new object, the view sets its
\* amounts and saves it: an INSERT.  A row that fails the check constraint of
\* the table is not stored: the form's validation refuses it, or the INSERT
\* raises IntegrityError where the form does not validate constraints
CreatePaymentPeriodForm(s, start, end, is_paid, payment_date) ==
    IF ~period_end_gte_period_start(start, end)
    THEN /\ \E raised \in BOOLEAN :
                StepS("CreatePaymentPeriodForm", 0, raised, s, start, end)
         /\ UNCHANGED <<monthlypayment, paymentperiod, nextPeriodId>>
    ELSE /\ nextPeriodId <= MaxPeriods
         /\ StepS("CreatePaymentPeriodForm", 0, FALSE, s, start, end)
         /\ paymentperiod' =
                PeriodCreate(paymentperiod, nextPeriodId, s, start, end,
                    period_sums(payrollmanager, delivery, s, start, end),
                    is_paid, payment_date)
         /\ nextPeriodId' = nextPeriodId + 1
         /\ UNCHANGED monthlypayment

\* MonthlyPaymentAdmin.mark_as_paid / mark_as_unpaid on the selected rows
MonthlyMarkAsPaid(S) ==
    /\ S # {}
    /\ StepS("MonthlyMarkAsPaid", 0, FALSE, "", 0, 0)
    /\ monthlypayment' = MarkAsPaid(monthlypayment, S, Today)
    /\ UNCHANGED <<paymentperiod, nextPeriodId>>

MonthlyMarkAsUnpaid(S) ==
    /\ S # {}
    /\ StepS("MonthlyMarkAsUnpaid", 0, FALSE, "", 0, 0)
    /\ monthlypayment' = MarkAsUnpaid(monthlypayment, S)
    /\ UNCHANGED <<paymentperiod, nextPeriodId>>

\* PaymentPeriodAdmin.mark_as_paid / mark_as_unpaid on the selected rows
PeriodMarkAsPaid(S) ==
    /\ S # {}
    /\ StepS("PeriodMarkAsPaid", 0, FALSE, "", 0, 0)
    /\ paymentperiod' = MarkAsPaid(paymentperiod, S, Today)
    /\ UNCHANGED <<monthlypayment, nextPeriodId>>

PeriodMarkAsUnpaid(S) ==
    /\ S # {}
    /\ StepS("PeriodMarkAsUnpaid", 0, FALSE, "", 0, 0)
    /\ paymentperiod' = MarkAsUnpaid(paymentperiod, S)
    /\ UNCHANGED <<monthlypayment, nextPeriodId>>

\* POST mark_paid of staff_payroll for one posted staff_id.  The view first
\* loops over the staff its filters select, and the first aggregate of the
\* loop names a column PayrollManager does not have (Sum('turnboy_pay')):
\* FieldError.  Only when the filters select nobody (emptyQuery, e.g.
\* ?role=driver) is the POST reached: MonthlyPayment.objects.get() and
\* save(), DoesNotExist not caught.  Every staff member of the model is active.
StaffPayrollMarkPaid(s, m, emptyQuery) ==
    LET found == {r \in monthlypayment : r.staff = s /\ r.month = m}
    IN  IF ~emptyQuery \/ found = {}
        THEN /\ StepS("StaffPayrollMarkPaid", 0, TRUE, s, FirstDay(m), LastDay(m))
             /\ UNCHANGED <<monthlypayment, paymentperiod, nextPeriodId>>
        ELSE /\ StepS("StaffPayrollMarkPaid", 0, FALSE, s, FirstDay(m), LastDay(m))
             /\ monthlypayment' =
                    SetPaidAndSave(monthlypayment, CHOOSE r \in found : TRUE, Today)
             /\ UNCHANGED <<paymentperiod, nextPeriodId>>

CascadeOrders == {"batch", "first_first", "last_first"}

NextEngine ==
    \/ \E la \in LoadingAmounts, rate \in TurnboyRates, date \in DefaultDates :
           DeliveryCreate(la, rate, date)
    \/ \E d \in DeliveryIds, la \in LoadingAmounts, rate \in TurnboyRates,
          date \in DefaultDates :
           DeliveryEdit(d, la, rate, date)
    \/ \E d \in DeliveryIds, s \in Staff, role \in ROLE_CHOICES, helped \in BOOLEAN :
           AssignmentCreate(d, s, role, helped)
    \/ \E d \in DeliveryIds, i \in 1..MaxAssignments, s \in Staff,
          role \in ROLE_CHOICES, helped \in BOOLEAN :
           AssignmentEdit(d, i, s, role, helped)
    \/ \E d \in DeliveryIds, i \in 1..MaxAssignments : AssignmentDelete(d, i)
    \/ \E d \in DeliveryIds, order \in CascadeOrders : DeliveryDelete(d, order)
    \/ \E d \in DeliveryIds : CalculatePayments(d)

Next ==
    \/ NextEngine
    \/ \E d \in DeliveryIds, k \in 0..MaxAssignments : CalculatePaymentsInterrupted(d, k)
    \/ \E r \in payrollmanager, rp \in FormPays, lp \in FormPays : AdminEditLine(r, rp, lp)
    \/ \E S \in SUBSET payrollmanager : AdminDeleteLines(S)

\* deliveries and assignments, and every operation on the summary tables
NextSummary ==
    \/ \E la \in SummaryLoadingAmounts, rate \in SummaryTurnboyRates, date \in Dates :
           DeliveryCreate(la, rate, date)
    \/ \E d \in DeliveryIds, s \in Staff, role \in ROLE_CHOICES, helped \in BOOLEAN :
           AssignmentCreate(d, s, role, helped)
    \/ \E s \in Staff, m \in Months : CalculateMonthlyPayment(s, m)
    \/ \E s \in Staff, start \in Dates, end \in Dates :
           CalculateCustomPeriodPayment(s, start, end)
    \/ \E s \in Staff, start \in Dates, end \in Dates :
           PeriodPayrollCreate(s, start, end)
    \/ \E s \in Staff, start \in Dates, end \in Dates :
           PeriodPayrollMarkPaid(s, start, end)
    \/ \E period_id \in 1..MaxPeriods : MarkPeriodPaid(period_id)
    \/ \E s \in Staff, start \in Dates, end \in Dates, is_paid \in BOOLEAN,
          payment_date \in FormDates :
           CreatePaymentPeriodForm(s, start, end, is_paid, payment_date)
    \/ \E S \in SUBSET monthlypayment : MonthlyMarkAsPaid(S)
    \/ \E S \in SUBSET monthlypayment : MonthlyMarkAsUnpaid(S)
    \/ \E S \in SUBSET paymentperiod : PeriodMarkAsPaid(S)
    \/ \E S \in SUBSET paymentperiod : PeriodMarkAsUnpaid(S)
    \/ \E s \in Staff, m \in Months, emptyQuery \in BOOLEAN :
           StaffPayrollMarkPaid(s, m, emptyQuery)

\* deliveries, and StaffAssignment saves by requests that run at once
NextConcurrent ==
    \/ \E la \in ConcurrentLoadingAmounts, rate \in TurnboyRates,
          date \in DefaultDates :
           DeliveryCreate(la, rate, date)
    \/ \E c \in Callers, d \in DeliveryIds, s \in Staff, role \in ROLE_CHOICES,
          helped \in BOOLEAN :
           CallerSave(c, d, s, role, helped)
    \/ \E c \in Callers : CallerCountLoaders(c)
    \/ \E c \in Callers : CallerReadAssignments(c)
    \/ \E c \in Callers : CallerUpsert(c)

\* summary rows made from a ledger, and the changes of their payment status
NextStatus ==
    \/ \E la \in SummaryLoadingAmounts, rate \in SummaryTurnboyRates,
          date \in DefaultDates :
           DeliveryCreate(la, rate, date)
    \/ \E d \in DeliveryIds, s \in Staff, role \in ROLE_CHOICES, helped \in BOOLEAN :
           AssignmentCreate(d, s, role, helped)
    \/ \E s \in Staff, m \in Months : CalculateMonthlyPayment(s, m)
    \/ \E s \in Staff, start \in DefaultDates, end \in DefaultDates :
           PeriodPayrollCreate(s, start, end)
    \/ \E s \in Staff, start \in DefaultDates, end \in DefaultDates,
          is_paid \in BOOLEAN, payment_date \in FormDates :
           CreatePaymentPeriodForm(s, start, end, is_paid, payment_date)
    \/ \E period_id \in 1..MaxPeriods : MarkPeriodPaid(period_id)
    \/ \E S \in SUBSET monthlypayment : MonthlyMarkAsPaid(S)
    \/ \E S \in SUBSET monthlypayment : MonthlyMarkAsUnpaid(S)
    \/ \E S \in SUBSET paymentperiod : PeriodMarkAsPaid(S)
    \/ \E S \in SUBSET paymentperiod : PeriodMarkAsUnpaid(S)

\* the Staff table: staff are added, changed, saved and deleted while
\* deliveries have assignments
NextStaff ==
    \/ \E la \in SummaryLoadingAmounts, rate \in SummaryTurnboyRates,
          date \in DefaultDates :
           DeliveryCreate(la, rate, date)
    \/ \E d \in DeliveryIds, s \in Staff, role \in ROLE_CHOICES, helped \in BOOLEAN :
           AssignmentCreate(d, s, role, helped)
    \/ \E s \in Staff, role \in ROLE_CHOICES, is_loader \in BOOLEAN :
           StaffAdd(s, role, is_loader)
    \/ \E s \in Staff, role \in ROLE_CHOICES, is_loader \in BOOLEAN :
           StaffChange(s, role, is_loader)
    \/ \E s \in Staff, role \in ROLE_CHOICES, is_loader \in BOOLEAN :
           StaffSave(s, role, is_loader)
    \/ \E s \in Staff : StaffDelete(s)
\* the requests that make PaymentPeriod rows, with the dates in either order
NextPeriod ==
    \/ \E la \in SummaryLoadingAmounts, rate \in SummaryTurnboyRates, date \in Dates :
           DeliveryCreate(la, rate, date)
    \/ \E d \in DeliveryIds, s \in Staff, role \in ROLE_CHOICES, helped \in BOOLEAN :
           AssignmentCreate(d, s, role, helped)
    \/ \E s \in Staff, start \in Dates, end \in Dates :
           CalculateCustomPeriodPayment(s, start, end)
    \/ \E s \in Staff, start \in Dates, end \in Dates :
           PeriodPayrollCreate(s, start, end)
    \/ \E s \in Staff, start \in Dates, end \in Dates :
           PeriodPayrollMarkPaid(s, start, end)
    \/ \E s \in Staff, start \in Dates, end \in Dates :
           CreatePaymentPeriodForm(s, start, end, FALSE, NoDate)

\* recomputes of deliveries whose staff have summary rows
NextFrame ==
    \/ \E la \in SummaryLoadingAmounts, rate \in SummaryTurnboyRates,
          date \in DefaultDates :
           DeliveryCreate(la, rate, date)
    \/ \E d \in DeliveryIds, s \in Staff, role \in ROLE_CHOICES, helped \in BOOLEAN :
           AssignmentCreate(d, s, role, helped)
    \/ \E d \in DeliveryIds : CalculatePayments(d)
    \/ \E s \in Staff, m \in Months : CalculateMonthlyPayment(s, m)
    \/ \E s \in Staff, start \in DefaultDates, end \in DefaultDates :
           PeriodPayrollCreate(s, start, end)

\* Delivery and assignment saves and deletes and forced recalculations only
SpecEngine == Init /\ [][NextEngine]_vars

\* the above, the hand edits of PayrollManager rows the admin allows, and a
\* recalculation that fails part-way
Spec == Init /\ [][Next]_vars

\* the same operations, one operation longer
SpecDeep == InitDeep /\ [][Next]_vars

\* the summaries over a ledger built by delivery and assignment saves
SpecSummary == InitSummary /\ [][NextSummary]_vars

\* the saves of StaffAssignments by two requests, statement by statement
SpecConcurrent == InitConcurrent /\ [][NextConcurrent]_vars

\* the operations that make summary rows and change their payment status
SpecStatus == InitStatus /\ [][NextStatus]_vars

\* recomputes while summary rows exist
SpecFrame == InitFrame /\ [][NextFrame]_vars

\* the requests that make PaymentPeriod rows
SpecPeriod == InitPeriod /\ [][NextPeriod]_vars

\* the operations on the Staff table, over deliveries with assignments
SpecStaff == InitStaff /\ [][NextStaff]_vars
\* ------------------------------------------------------------ claim helpers
LinesOf(d) == {r \in payrollmanager : r.delivery = d}

AssignedStaff(d) ==
    {staffassignment[d][i].staff : i \in DOMAIN staffassignment[d]}

\* the operations that end with a completed update_payroll_manager(d)
RecomputeOps ==
    {"DeliveryCreate", "DeliveryEdit", "AssignmentCreate", "AssignmentEdit",
     "AssignmentDelete", "CalculatePayments"}

JustRecomputed(d) == last.op \in RecomputeOps /\ last.d = d

RECURSIVE SumLoaderPay(_)
SumLoaderPay(rows) ==
    IF rows = {} THEN 0
    ELSE LET r == CHOOSE x \in rows : TRUE
         IN  r.loader_pay + SumLoaderPay(rows \ {r})

\* the PayrollManager rows of staff s whose delivery date d has start <= d <= end
LinesInRange(s, start, end) ==
    {r \in payrollmanager :
        /\ r.staff = s
        /\ \E d \in DOMAIN delivery :
               d = r.delivery /\ start <= delivery[d].date /\ delivery[d].date <= end}

\* the three sums over those rows (0 over no row)
SumsInRange(s, start, end) ==
    [role_payment |-> SumField(LinesInRange(s, start, end), "role_pay"),
     loader_payment |-> SumField(LinesInRange(s, start, end), "loader_pay"),
     total_payment |-> SumField(LinesInRange(s, start, end), "total_pay")]

\* the amounts of a summary row
AmountsOf(r) ==
    [role_payment |-> r.role_payment, loader_payment |-> r.loader_payment,
     total_payment |-> r.total_payment]

\* the operations that only change the payment status of summary rows
StatusOps ==
    {"MonthlyMarkAsPaid", "MonthlyMarkAsUnpaid", "PeriodMarkAsPaid",
     "PeriodMarkAsUnpaid", "MarkPeriodPaid"}

\* the keys and amounts of the rows of a summary table
MonthlyAmounts(rows) ==
    {[staff |-> r.staff, month |-> r.month, amounts |-> AmountsOf(r)] : r \in rows}

PeriodAmounts(rows) ==
    {[id |-> r.id, staff |-> r.staff, period_start |-> r.period_start,
      period_end |-> r.period_end, amounts |-> AmountsOf(r)] : r \in rows}

\* the month of a range of days that is a month
MonthOf(start) == (start - 1) \div DaysInMonth + 1

\* -------------------------------------------------------------------- claims
\* C1: for every delivery, the staff that have a PayrollManager row for it are
\* exactly the staff that have a StaffAssignment row for it.
C1_LedgerStaffEqualsAssignedStaff ==
    \A d \in DeliveryIds : {r.staff : r \in LinesOf(d)} = AssignedStaff(d)

\* C2: deleting the only assignment of staff s on delivery d removes the row
\* (s, d), keeps the row of every staff still assigned to d, and keeps every
\* row of every other delivery.
C2_DeleteRemovesExactlyItsLine ==
    [][\A d \in DeliveryIds, i \in 1..MaxAssignments :
          (/\ AssignmentDelete(d, i)
           /\ staffassignment[d][i].staff \notin
                  {staffassignment'[d][j].staff : j \in DOMAIN staffassignment'[d]})
          => /\ ~\E r \in payrollmanager' :
                    r.delivery = d /\ r.staff = staffassignment[d][i].staff
             /\ \A j \in DOMAIN staffassignment'[d] :
                    \E r \in payrollmanager' :
                        r.delivery = d /\ r.staff = staffassignment'[d][j].staff
             /\ \A r \in payrollmanager : r.delivery # d => r \in payrollmanager'
      ]_vars

\* C3: once a delivery is deleted, no PayrollManager row and no
\* StaffAssignment row refers to it, whatever the order in which the cascade
\* sent the assignments' post_delete signals.
C3_DeletedDeliveryHasNoLines ==
    \A d \in DeliveryIds :
        (d < nextId /\ d \notin DOMAIN delivery)
        => LinesOf(d) = {} /\ staffassignment[d] = <<>>

\* a delivery that had two assigned staff, each with a PayrollManager row, has
\* just been deleted
C3_Witness ==
    /\ last.op = "DeliveryDelete"
    /\ last.n >= 2
    /\ last.d < nextId
    /\ last.d \notin DOMAIN delivery

\* C4: right after update_payroll_manager has run for a delivery, running it
\* again changes no PayrollManager row.
C4_RecomputeIdempotent ==
    \A d \in DOMAIN delivery :
        JustRecomputed(d)
        => update_payroll_manager(payrollmanager, delivery[d], d,
                                  staffassignment[d]) = payrollmanager

\* a forced recalculation has just rerun the recompute of a delivery with two
\* loading helpers, each of whom has a row with a loading share
C4_Witness ==
    /\ last.op = "CalculatePayments"
    /\ Cardinality(get_loaders(staffassignment[last.d])) = 2
    /\ Cardinality(LinesOf(last.d)) = 2
    /\ \A r \in LinesOf(last.d) : r.loader_pay > 0

\* C5: after the recompute of a delivery with at least one loading helper, the
\* loader_pay of its rows adds up to its loading_amount.
\* (Stated for the plain case: a loading_amount that is not negative, one
\* assignment per staff member, and no row of a staff member who is not
\* assigned.)
C5_LoadingPoolConserved ==
    \A d \in DOMAIN delivery :
        (/\ JustRecomputed(d)
         /\ total_loader_count(staffassignment[d]) >= 1
         /\ delivery[d].loading_amount >= 0
         /\ Cardinality(AssignedStaff(d)) = Len(staffassignment[d])
         /\ {r.staff : r \in LinesOf(d)} = AssignedStaff(d))
        => SumLoaderPay(LinesOf(d)) = delivery[d].loading_amount

\* C6: after the recompute of a delivery, the row of a staff member assigned
\* as turnboy has role_pay = turnboy_payment_rate and the row of a staff member
\* assigned as loader has role_pay = 0.
C6_RolePayByRole ==
    \A d \in DOMAIN delivery :
        JustRecomputed(d)
        => \A i \in DOMAIN staffassignment[d] :
               \E r \in LinesOf(d) :
                   /\ r.staff = staffassignment[d][i].staff
                   /\ r.role_pay = IF staffassignment[d][i].role = "turnboy"
                                   THEN delivery[d].turnboy_payment_rate ELSE 0

\* C7: after the recompute of a delivery with n helped_loading assignments,
\* the row of an assignment with helped_loading holds loader_pay =
\* loading_amount / n (as the column stores it) and the row of an assignment
\* without it holds loader_pay = 0.
C7_LoaderPayByAssignmentCount ==
    \A d \in DOMAIN delivery :
        JustRecomputed(d)
        => LET n == total_loader_count(staffassignment[d])
           IN  \A i \in DOMAIN staffassignment[d] :
                   \E r \in LinesOf(d) :
                       /\ r.staff = staffassignment[d][i].staff
                       /\ r.loader_pay =
                              IF staffassignment[d][i].helped_loading
                              THEN ToDb(DecDiv(Dec(delivery[d].loading_amount), n))
                              ELSE 0

\* C8: every PayrollManager row holds total_pay = role_pay + loader_pay.
C8_TotalIsSum ==
    \A r \in payrollmanager : r.total_pay = r.role_pay + r.loader_pay

\* C9: a recompute that fails part-way leaves the PayrollManager table as it
\* was before it started.  (Stated for a delivery on which every staff member
\* holds one assignment.)
C9_FailedRecomputeWritesNothing ==
    [][(/\ last'.op = "CalculatePaymentsInterrupted"
        /\ Cardinality(AssignedStaff(last'.d)) = Len(staffassignment[last'.d]))
          => payrollmanager' = payrollmanager]_vars

\* C10: a recompute of a delivery whose loading_amount is negative writes
\* nothing, and no PayrollManager row holds a negative role_pay or loader_pay.
C10_NegativeAmountRejected ==
    [][/\ (/\ last'.op \in RecomputeOps
           /\ delivery'[last'.d].loading_amount < 0)
          => payrollmanager' = payrollmanager
       /\ \A r \in payrollmanager' : r.role_pay >= 0 /\ r.loader_pay >= 0
      ]_vars

C15_OneLinePerStaffAndDelivery ==
    \A r1, r2 \in payrollmanager :
        (r1.staff = r2.staff /\ r1.delivery = r2.delivery) => r1 = r2

\* a staff member who holds two assignments (turnboy and loader) on a delivery
\* with a second assigned staff member has one row after the recompute
C15_Witness ==
    /\ last.op \in RecomputeOps
    /\ last.d \in DOMAIN delivery
    /\ Len(staffassignment[last.d]) = 3
    /\ AssignedStaff(last.d) = Staff
    /\ Cardinality(LinesOf(last.d)) = 2

\* C16: every stored StaffAssignment with role loader has helped_loading set,
\* whatever the form held, and the recompute its save triggers counts its
\* staff member among the loading helpers.
C16_LoaderAlwaysHelpedLoading ==
    \A d \in DeliveryIds :
        \A i \in DOMAIN staffassignment[d] :
            staffassignment[d][i].role = "loader"
            => /\ staffassignment[d][i].helped_loading
               /\ staffassignment[d][i].staff \in get_loaders(staffassignment[d])

\* a StaffAssignment with role loader and helped_loading unticked has just
\* been saved: it is stored with helped_loading set and its staff member's
\* row holds the whole loading_amount
C16_Witness ==
    /\ last.op = "AssignmentCreate"
    /\ last.n = 0
    /\ Len(staffassignment[last.d]) = 1
    /\ staffassignment[last.d][1].role = "loader"
    /\ staffassignment[last.d][1].helped_loading
    /\ delivery[last.d].loading_amount = 100000
    /\ \E r \in LinesOf(last.d) :
           r.staff = staffassignment[last.d][1].staff /\ r.loader_pay = 100000

\* C12: for every staff member and every range of dates, get_monthly_payment
\* and the period sums return the sums of role_pay, loader_pay and total_pay
\* over exactly the PayrollManager rows of that staff member whose delivery
\* date lies in the range, both ends included, and 0 for all three when there
\* is no such row.
C12_AggregateIsSumOverRange ==
    /\ \A s \in Staff, m \in Months :
           get_monthly_payment(payrollmanager, delivery, s, m)
               = SumsInRange(s, FirstDay(m), LastDay(m))
    /\ \A s \in Staff, start \in Dates, end \in Dates :
           start <= end
           => /\ period_sums(payrollmanager, delivery, s, start, end)
                     = SumsInRange(s, start, end)
              /\ custom_period_sums(payrollmanager, delivery, s, start, end)
                     = SumsInRange(s, start, end)

\* C13: when a summary row exists for the key, materializing it again
\* (calculate_monthly_payment, calculate_custom_period_payment, the
\* create_payment_period POST) succeeds, leaves is_paid and payment_date of the
\* row as they were and sets its amounts to the current sums over the range.
C13_RematerializeKeepsStatus ==
    [][/\ \A s \in Staff, m \in Months :
              (/\ CalculateMonthlyPayment(s, m)
               /\ \E r \in monthlypayment : r.staff = s /\ r.month = m)
              => \A r \in monthlypayment :
                     (r.staff = s /\ r.month = m)
                     => \E q \in monthlypayment' :
                            /\ q.staff = s /\ q.month = m
                            /\ q.is_paid = r.is_paid
                            /\ q.payment_date = r.payment_date
                            /\ AmountsOf(q) = SumsInRange(s, FirstDay(m), LastDay(m))
       /\ \A s \in Staff, start \in Dates, end \in Dates :
              (/\ \/ CalculateCustomPeriodPayment(s, start, end)
                  \/ PeriodPayrollCreate(s, start, end)
               /\ PeriodRows(paymentperiod, s, start, end) # {})
              => /\ ~last'.raised
                 /\ \A r \in PeriodRows(paymentperiod, s, start, end) :
                        \E q \in paymentperiod' :
                            /\ q.id = r.id
                            /\ q.is_paid = r.is_paid
                            /\ q.payment_date = r.payment_date
                            /\ AmountsOf(q) = SumsInRange(s, start, end)
      ]_vars

\* C14: mark_as_paid and mark_period_paid set is_paid and payment_date = today
\* on the rows they are given, mark_as_unpaid clears both, and none of them
\* changes an amount of a summary row, the rows another table holds, or a
\* PayrollManager row.
C14_MarkPaidIsPureStatusChange ==
    [][/\ last'.op \in StatusOps
          => /\ payrollmanager' = payrollmanager
             /\ MonthlyAmounts(monthlypayment') = MonthlyAmounts(monthlypayment)
             /\ PeriodAmounts(paymentperiod') = PeriodAmounts(paymentperiod)
       /\ \A S \in SUBSET monthlypayment :
              /\ MonthlyMarkAsPaid(S)
                 => \A r \in S :
                        [r EXCEPT !.is_paid = TRUE, !.payment_date = Today]
                            \in monthlypayment'
              /\ MonthlyMarkAsUnpaid(S)
                 => \A r \in S :
                        [r EXCEPT !.is_paid = FALSE, !.payment_date = NoDate]
                            \in monthlypayment'
       /\ \A S \in SUBSET paymentperiod :
              /\ PeriodMarkAsPaid(S)
                 => \A r \in S :
                        [r EXCEPT !.is_paid = TRUE, !.payment_date = Today]
                            \in paymentperiod'
              /\ PeriodMarkAsUnpaid(S)
                 => \A r \in S :
                        [r EXCEPT !.is_paid = FALSE, !.payment_date = NoDate]
                            \in paymentperiod'
       /\ \A r \in paymentperiod :
              MarkPeriodPaid(r.id)
              => [r EXCEPT !.is_paid = TRUE, !.payment_date = Today]
                     \in paymentperiod'
      ]_vars

\* an unpaid PaymentPeriod row with amounts that are not 0 has just been
\* marked paid by mark_period_paid
C14_Witness ==
    /\ last.op = "MarkPeriodPaid"
    /\ payrollmanager # {}
    /\ \E r \in paymentperiod :
           /\ r.id = last.n
           /\ r.is_paid
           /\ r.payment_date = Today
           /\ r.role_payment > 0
           /\ r.total_payment = r.role_payment + r.loader_payment

\* C17: there is at most one MonthlyPayment row per (staff, month) and at
\* most one PaymentPeriod row per (staff, period_start, period_end).
C17_SummaryRowsUniquePerKey ==
    /\ \A r1, r2 \in monthlypayment :
           (r1.staff = r2.staff /\ r1.month = r2.month) => r1 = r2
    /\ \A r1, r2 \in paymentperiod :
           (/\ r1.staff = r2.staff
            /\ r1.period_start = r2.period_start
            /\ r1.period_end = r2.period_end) => r1 = r2

\* C19: a mark-paid request for a key that has no summary row does not raise
\* and leaves a row for the key with is_paid set, payment_date = today and
\* the current sums over the range as amounts (period_payroll and
\* individual_payroll, staff_payroll, mark_period_paid).
C19_MarkPaidCreatesOnDemand ==
    [][/\ (/\ last'.op = "PeriodPayrollMarkPaid"
            /\ PeriodRows(paymentperiod, last'.staff, last'.start, last'.end) = {})
           => /\ ~last'.raised
              /\ \E q \in PeriodRows(paymentperiod', last'.staff, last'.start, last'.end) :
                     /\ q.is_paid
                     /\ q.payment_date = Today
                     /\ AmountsOf(q) = SumsInRange(last'.staff, last'.start, last'.end)
       /\ (/\ last'.op = "StaffPayrollMarkPaid"
            /\ ~\E r \in monthlypayment :
                   r.staff = last'.staff /\ r.month = MonthOf(last'.start))
           => /\ ~last'.raised
              /\ \E q \in monthlypayment' :
                     /\ q.staff = last'.staff
                     /\ q.month = MonthOf(last'.start)
                     /\ q.is_paid
                     /\ q.payment_date = Today
                     /\ AmountsOf(q) = SumsInRange(last'.staff, last'.start, last'.end)
       /\ (/\ last'.op = "MarkPeriodPaid"
            /\ ~\E r \in paymentperiod : r.id = last'.n)
           => \E q \in paymentperiod' :
                  q.id = last'.n /\ q.is_paid /\ q.payment_date = Today
      ]_vars

\* C20: every summary row is either unpaid with no payment_date or paid with
\* a payment_date.
C20_PaidIffDated ==
    /\ \A r \in monthlypayment : r.is_paid <=> r.payment_date # NoDate
    /\ \A r \in paymentperiod : r.is_paid <=> r.payment_date # NoDate

\* C18: when the requests that saved StaffAssignments of a delivery have all
\* returned, however their statements were interleaved, the PayrollManager
\* rows of the delivery are those of one recompute over the assignments now
\* stored: running update_payroll_manager once more changes nothing.
\* (Stated for a delivery on which every staff member holds one assignment.)
C18_ConcurrentSavesSerialized ==
    (\A c \in Callers : callers[c].pc = "idle")
    => \A d \in DOMAIN delivery :
           Cardinality(AssignedStaff(d)) = Len(staffassignment[d])
           => update_payroll_manager(payrollmanager, delivery[d], d,
                                     staffassignment[d]) = payrollmanager

\* C21: an operation that recomputes delivery d (a save of d, the save or
\* delete of one of its assignments, the admin recalculation) creates, changes
\* and deletes only PayrollManager rows of d: the rows of every other delivery
\* are the same before and after.
C21_RecomputeTouchesOwnDeliveryOnly ==
    [][last'.op \in RecomputeOps
          => {r \in payrollmanager' : r.delivery # last'.d}
                 = {r \in payrollmanager : r.delivery # last'.d}]_vars

\* a staff member who has a row on one delivery has just been assigned to the
\* other delivery: the recompute of that one wrote a row for the same staff
\* member and the row of the first delivery is still there
C21_Witness ==
    /\ last.op = "AssignmentCreate"
    /\ \E r1, r2 \in payrollmanager :
           /\ r1.staff = r2.staff
           /\ r1.delivery = last.d
           /\ r2.delivery # last.d
           /\ r2.delivery \in DOMAIN delivery
           /\ r1.role_pay > 0
           /\ r2.role_pay > 0

\* C22: after the recompute of a delivery that has no assignment with
\* helped_loading, every PayrollManager row of the delivery holds
\* loader_pay = 0 and total_pay = role_pay (nobody is paid the loading_amount),
\* and the recompute has completed without an error.
C22_NoHelpersNoLoaderPay ==
    \A d \in DOMAIN delivery :
        (JustRecomputed(d) /\ total_loader_count(staffassignment[d]) = 0)
        => /\ ~last.raised
           /\ \A r \in LinesOf(d) : r.loader_pay = 0 /\ r.total_pay = r.role_pay

\* C23: the PayrollManager table changes only through the payroll engine: a
\* step that is not a Delivery or StaffAssignment save or delete or the
\* recalculation action leaves every PayrollManager row as it was (no row is
\* created, edited or deleted by hand).
C23_LedgerWrittenByEngineOnly ==
    [][last'.op \notin (RecomputeOps \cup
                        {"DeliveryDelete", "CalculatePaymentsInterrupted"})
          => payrollmanager' = payrollmanager]_vars

\* C24: every stored Staff row with role loader has is_loader set.
C24_LoaderRoleIsLoader ==
    \A s \in DOMAIN staff : staff[s].role = "loader" => staff[s].is_loader

\* C25: no PaymentPeriod row has period_end < period_start.  Given
\* start > end, the admin custom-period action changes no summary row, and
\* the POSTs of period_payroll and individual_payroll work on the two dates
\* swapped: the row they leave is the row of (end, start).
C25_PeriodDatesOrdered ==
    [][/\ \A r \in paymentperiod' : r.period_end >= r.period_start
       /\ \A s \in Staff, start \in Dates, end \in Dates :
              start > end
              => /\ CalculateCustomPeriodPayment(s, start, end)
                    => /\ paymentperiod' = paymentperiod
                       /\ monthlypayment' = monthlypayment
                 /\ (\/ PeriodPayrollCreate(s, start, end)
                     \/ PeriodPayrollMarkPaid(s, start, end))
                    => /\ last'.start = end /\ last'.end = start
                       /\ PeriodRows(paymentperiod', s, end, start) # {}
                       /\ PeriodRows(paymentperiod', s, start, end) = {}
      ]_vars

\* a POST of period_payroll whose query string had start_date after end_date
\* has just left a PaymentPeriod row with the dates in order, for a staff
\* member who has a PayrollManager row in the range
C25_Witness ==
    /\ last.op \in {"PeriodPayrollCreate", "PeriodPayrollMarkPaid"}
    /\ last.n = 1
    /\ last.start < last.end
    /\ \E r \in PeriodRows(paymentperiod, last.staff, last.start, last.end) :
           r.total_payment > 0

\* C26: after the recompute of a delivery on which a staff member holds both
\* a turnboy and a loader assignment, the one PayrollManager row of that staff
\* member holds role_pay = turnboy_payment_rate and loader_pay = the loading
\* share (loading_amount over the number of loading helpers), in whichever
\* order the two assignments are stored.
C26_DualAssignmentKeepsBothPays ==
    \A d \in DOMAIN delivery :
        JustRecomputed(d)
        => \A i, j \in DOMAIN staffassignment[d] :
               (/\ staffassignment[d][i].staff = staffassignment[d][j].staff
                /\ staffassignment[d][i].role = "turnboy"
                /\ staffassignment[d][j].role = "loader")
               => \E r \in LinesOf(d) :
                      /\ r.staff = staffassignment[d][i].staff
                      /\ r.role_pay = delivery[d].turnboy_payment_rate
                      /\ r.loader_pay =
                             ToDb(DecDiv(Dec(delivery[d].loading_amount),
                                  Cardinality(get_loaders(staffassignment[d]))))

\* C27: after the recompute of a delivery, the loader_pay stored for each
\* loading helper is the delivery's per_loader_amount() (to the cent), also
\* when one staff member holds two helped_loading assignments.  (Stated for
\* a loading_amount above 0 and for the staff all of whose assignments on the
\* delivery have helped_loading.)
C27_PerLoaderAmountAgreesWithLedger ==
    \A d \in DOMAIN delivery :
        (JustRecomputed(d) /\ delivery[d].loading_amount > 0)
        => \A i \in DOMAIN staffassignment[d] :
               (\A j \in DOMAIN staffassignment[d] :
                    staffassignment[d][j].staff = staffassignment[d][i].staff
                    => staffassignment[d][j].helped_loading)
               => \E r \in LinesOf(d) :
                      /\ r.staff = staffassignment[d][i].staff
                      /\ r.loader_pay =
                             ToDb(per_loader_amount(delivery[d], staffassignment[d]))

\* C28: a recompute writes PayrollManager rows only.  The recalculation
\* action changes no Delivery, StaffAssignment, Staff, MonthlyPayment or
\* PaymentPeriod row; the recompute that follows the save of a Delivery or of
\* a StaffAssignment changes nothing but the saved row in those tables: the
\* stored assignments are the old ones and the saved one as clean() left it
\* (no helped_loading flag is touched), and no other delivery is touched.
C28_RecomputeWritesLedgerOnly ==
    [][/\ last'.op \in RecomputeOps
          => /\ staff' = staff
             /\ monthlypayment' = monthlypayment
             /\ paymentperiod' = paymentperiod
             /\ \A e \in DeliveryIds \ {last'.d} :
                    /\ staffassignment'[e] = staffassignment[e]
                    /\ e \in DOMAIN delivery => delivery'[e] = delivery[e]
       /\ last'.op = "CalculatePayments"
          => delivery' = delivery /\ staffassignment' = staffassignment
       /\ \A d \in DeliveryIds, s \in Staff, role \in ROLE_CHOICES, helped \in BOOLEAN :
              AssignmentCreate(d, s, role, helped)
              => /\ delivery' = delivery
                 /\ staffassignment'[d] =
                        Append(staffassignment[d],
                               clean([staff |-> s, role |-> role,
                                      helped_loading |-> helped]))
      ]_vars

\* the forced recalculation has just run for a delivery whose turnboy did not
\* help loading, while the turnboy's monthly summary row exists with the
\* turnboy pay in it: the assignment is still not helped_loading, the row of
\* the turnboy holds no loader_pay
C28_Witness ==
    /\ last.op = "CalculatePayments"
    /\ last.d \in DOMAIN delivery
    /\ \E i \in DOMAIN staffassignment[last.d] :
           /\ ~staffassignment[last.d][i].helped_loading
           /\ \E r \in LinesOf(last.d) :
                  /\ r.staff = staffassignment[last.d][i].staff
                  /\ r.role_pay > 0
                  /\ r.loader_pay = 0
           /\ \E m \in monthlypayment :
                  /\ m.staff = staffassignment[last.d][i].staff
                  /\ m.role_payment > 0

\* C29: after a Staff member s is deleted, no StaffAssignment and no
\* PayrollManager row refers to s, and on every delivery where s was a
\* loading helper the row of each remaining helper holds loader_pay =
\* loading_amount over the number of helpers that are left.
C29_StaffDeleteLeavesConsistentLedger ==
    [][\A s \in Staff :
          StaffDelete(s)
          => /\ \A d \in DeliveryIds : s \notin AssignedTo(staffassignment'[d])
             /\ ~\E r \in payrollmanager' : r.staff = s
             /\ \A d \in DOMAIN delivery :
                    s \in get_loaders(staffassignment[d])
                    => \A x \in get_loaders(staffassignment'[d]) :
                           \E r \in payrollmanager' :
                               /\ r.delivery = d
                               /\ r.staff = x
                               /\ r.loader_pay =
                                      ToDb(DecDiv(Dec(delivery[d].loading_amount),
                                           Cardinality(get_loaders(staffassignment'[d]))))
      ]_vars

\* C30: summary rows are snapshots.  A recompute changes no MonthlyPayment
\* and no PaymentPeriod row; right after a materialize call for a key the
\* amounts of the key's rows are the aggregate of the current PayrollManager
\* rows in the range (role, loader and total, as the call computed them); and
\* every summary row holds total_payment = role_payment + loader_payment.
C30_SummaryRowsAreSnapshots ==
    [][/\ last'.op \in RecomputeOps
          => monthlypayment' = monthlypayment /\ paymentperiod' = paymentperiod
       /\ \A s \in Staff, m \in Months :
              CalculateMonthlyPayment(s, m)
              => \A q \in monthlypayment' :
                     (q.staff = s /\ q.month = m)
                     => AmountsOf(q) =
                            get_monthly_payment(payrollmanager, delivery, s, m)
       /\ \A s \in Staff, start \in Dates, end \in Dates :
              /\ CalculateCustomPeriodPayment(s, start, end)
                 => \A q \in PeriodRows(paymentperiod', s, start, end) :
                        AmountsOf(q) =
                            custom_period_sums(payrollmanager, delivery, s, start, end)
              /\ PeriodPayrollCreate(s, start, end)
                 => \A q \in PeriodRows(paymentperiod', s, start, end) :
                        AmountsOf(q) =
                            period_sums(payrollmanager, delivery, s, start, end)
       /\ \A r \in monthlypayment' \cup paymentperiod' :
              r.total_payment = r.role_payment + r.loader_payment
      ]_vars

====
